---- MODULE Spec2Model ----
(***************************************************************************)
(* config2args: src/src/main.rs.                                           *)
(*                                                                         *)
(* main reads a JSON file, flattens the parsed value into an argument      *)
(* string (generate_args_string), renders it through Tera when the path    *)
(* ends with ".tera", and prints it.                                       *)
(*                                                                         *)
(* A Rust String is modelled as a sequence of one-character strings, so    *)
(* that find, len, trim_end and push_str are computed and not assumed.     *)
(* A JSON number is modelled by its value in tenths (25 is 2.5), which is  *)
(* enough to exercise the f64 formatter on integral, fractional and        *)
(* negative values.                                                        *)
(***************************************************************************)
EXTENDS Integers, Sequences, FiniteSets, TLC

(***************************************************************************)
(* Bounds of the model.                                                    *)
(***************************************************************************)
\* the largest number of object fields plus array elements in a document
MaxNodes == 3
\* the deepest nesting of objects below the top-level object
MaxDepth == 2

(***************************************************************************)
(* serde_json::Value                                                       *)
(***************************************************************************)
VNull == [t |-> "null", n |-> 0, s |-> <<>>, items |-> <<>>, kv |-> <<>>]

VBool(b) == [t |-> "bool", n |-> IF b THEN 1 ELSE 0, s |-> <<>>, items |-> <<>>, kv |-> <<>>]

VNum(tenths) == [t |-> "number", n |-> tenths, s |-> <<>>, items |-> <<>>, kv |-> <<>>]

VStr(str) == [t |-> "string", n |-> 0, s |-> str, items |-> <<>>, kv |-> <<>>]

VArr(elems) == [t |-> "array", n |-> 0, s |-> <<>>, items |-> elems, kv |-> <<>>]

\* entries is a sequence of [key, val] in document order (serde_json's
\* preserve_order map, which the tests of main.rs depend on)
VObj(entries) == [t |-> "object", n |-> 0, s |-> <<>>, items |-> <<>>, kv |-> entries]

is_object(v) == v.t = "object"

is_array(v) == v.t = "array"

is_number(v) == v.t = "number"

is_string(v) == v.t = "string"

is_null(v) == v.t = "null"

(***************************************************************************)
(* The inputs the model draws from.                                        *)
(***************************************************************************)
Keys == { <<"a">>, <<"_">>, <<"k", "1">> }

\* the scalars an object field may hold
FieldScalars == {VNull, VBool(TRUE), VNum(-25), VStr(<<"x">>), VStr(<<"y", " ">>)}

\* what an array may hold: the supported elements and each unsupported kind
Elems == {VNum(10), VStr(<<"x">>), VNull, VBool(TRUE), VArr(<<>>), VObj(<<>>)}

\* the scalars a whole document may be
TopScalars == FieldScalars \cup {VBool(FALSE), VNum(0), VNum(10), VNum(105), VStr(<<>>), VStr(<<" ">>)}

RECURSIVE SeqsUpTo(_, _)
SeqsUpTo(S, n) ==
    IF n = 0 THEN {<<>>}
    ELSE LET shorter == SeqsUpTo(S, n - 1)
         IN  shorter \cup {Append(q, e) : q \in shorter, e \in S}

\* the number of object fields and array elements in a value
RECURSIVE Size(_)
Size(v) ==
    LET RECURSIVE Sum(_)
        Sum(i) == IF i = 0 THEN 0 ELSE Size(v.kv[i].val) + Sum(i - 1)
    IN  Len(v.items) + Len(v.kv) + Sum(Len(v.kv))

KeysOf(entries) == {entries[i].key : i \in 1..Len(entries)}

\* the entry sequences of a first field, whose value is one of vals with s nodes,
\* followed by one of rests that does not repeat its key
EntriesFirst(s, vals, rests) ==
    { <<[key |-> u[1], val |-> u[2]]>> \o u[3] :
      u \in {w \in Keys \X {v \in vals : Size(v) = s} \X rests : w[1] \notin KeysOf(w[3])} }

RECURSIVE EntriesUpTo(_, _)
\* the values an object field may hold, of at most n nodes, objects nested at most d deep
ValuesUpTo(n, d) ==
    FieldScalars
    \cup {VArr(q) : q \in SeqsUpTo(Elems, n)}
    \cup (IF d > 0 THEN {VObj(e) : e \in EntriesUpTo(n, d - 1)} ELSE {})

\* the entry sequences with distinct keys, at most n nodes, objects nested at most d deep
EntriesUpTo(n, d) ==
    IF n = 0 THEN {<<>>}
    ELSE {<<>>} \cup
         UNION { EntriesFirst(s, ValuesUpTo(n - 1, d), EntriesUpTo(n - 1 - s, d)) : s \in 0..(n - 1) }

\* the documents serde_json::from_str can return that are not objects, within the bounds
NonObjectDocs == TopScalars \cup {VArr(q) : q \in SeqsUpTo(Elems, MaxNodes)}

Paths == { <<"c", ".", "t", "e", "r", "a">>, <<"t", "e", "r", "a">> }

(***************************************************************************)
(* String helpers of the standard library, as the code uses them.          *)
(***************************************************************************)
is_whitespace(c) == c \in {" ", "\t", "\n"}

\* str::trim_end
RECURSIVE trim_end(_)
trim_end(str) ==
    IF str # <<>> /\ is_whitespace(str[Len(str)])
    THEN trim_end(SubSeq(str, 1, Len(str) - 1))
    ELSE str

\* str::find(ch): the 0-based index of the first occurrence, -1 for None
find(str, ch) ==
    IF \E i \in 1..Len(str) : str[i] = ch
    THEN (CHOOSE i \in 1..Len(str) : str[i] = ch /\ \A j \in 1..(i - 1) : str[j] # ch) - 1
    ELSE -1

\* str::ends_with
ends_with(str, suffix) ==
    /\ Len(suffix) <= Len(str)
    /\ SubSeq(str, Len(str) - Len(suffix) + 1, Len(str)) = suffix

\* [String]::join
RECURSIVE join(_, _)
join(strs, sep) ==
    IF strs = <<>> THEN <<>>
    ELSE IF Len(strs) = 1 THEN strs[1]
    ELSE strs[1] \o sep \o join(Tail(strs), sep)

Digit(d) == CASE d = 0 -> "0" [] d = 1 -> "1" [] d = 2 -> "2" [] d = 3 -> "3" [] d = 4 -> "4"
              [] d = 5 -> "5" [] d = 6 -> "6" [] d = 7 -> "7" [] d = 8 -> "8" [] d = 9 -> "9"

RECURSIVE Decimal(_)
Decimal(k) == IF k < 10 THEN <<Digit(k)>> ELSE Append(Decimal(k \div 10), Digit(k % 10))

\* Display for f64 ("{value}" and to_string), on a value given in tenths:
\* no fraction for an integral value, the shortest fraction otherwise
format_f64(tenths) ==
    LET mag  == IF tenths < 0 THEN -tenths ELSE tenths
        sign == IF tenths < 0 THEN <<"-">> ELSE <<>>
        frac == IF mag % 10 = 0 THEN <<>> ELSE <<".", Digit(mag % 10)>>
    IN  sign \o Decimal(mag \div 10) \o frac

(***************************************************************************)
(* convert_vec_to_string_vec, main.rs:120-137.                             *)
(* The result is [ok, strs]: ok is FALSE when the loop panics.             *)
(***************************************************************************)
\* a mutant of ItemSupported: Null is let through as well
ItemSupported_AllowNull(item) == is_number(item) \/ is_string(item) \/ is_null(item)

ItemSupported(item) == is_number(item) \/ is_string(item)

ItemToString(item) == IF is_number(item) THEN format_f64(item.n) ELSE item.s

\* a mutant of convert_vec_to_string_vec: the result is built back to front
convert_vec_to_string_vec_Reversed(vec) ==
    IF \A i \in 1..Len(vec) : ItemSupported(vec[i])
    THEN [ok |-> TRUE, strs |-> [i \in 1..Len(vec) |-> ItemToString(vec[Len(vec) + 1 - i])]]
    ELSE [ok |-> FALSE, strs |-> <<>>]

convert_vec_to_string_vec(vec) ==
    IF \A i \in 1..Len(vec) : ItemSupported(vec[i])
    THEN [ok |-> TRUE, strs |-> [i \in 1..Len(vec) |-> ItemToString(vec[i])]]
    ELSE [ok |-> FALSE, strs |-> <<>>]

(***************************************************************************)
(* One iteration of the loop over the keys of an object, main.rs:52-98,    *)
(* for a field that is not itself an object.                               *)
(***************************************************************************)
\* main.rs:53-54
KeyName(prefix, key) == prefix \o key

\* a mutant of NestedPrefix: the `.` is not pushed
NestedPrefix_NoDot(key_name) == key_name

\* main.rs:58: the prefix handed to the call on a nested object
NestedPrefix(key_name) == key_name \o <<".">>

\* a mutant of FlagText: every flag is long
FlagText_AlwaysLong(key_name) ==
    IF find(key_name, "_") # 0
    THEN <<"-", "-">> \o key_name \o <<" ">>
    ELSE <<>>

\* a mutant of FlagText: an underscore anywhere in key_name drops the flag
FlagText_AnyUnderscore(key_name) ==
    IF find(key_name, "_") = -1
    THEN IF Len(key_name) = 1
         THEN <<"-">> \o key_name \o <<" ">>
         ELSE <<"-", "-">> \o key_name \o <<" ">>
    ELSE <<>>

\* main.rs:64-70
FlagText(key_name) ==
    IF find(key_name, "_") # 0
    THEN IF Len(key_name) = 1
         THEN <<"-">> \o key_name \o <<" ">>
         ELSE <<"-", "-">> \o key_name \o <<" ">>
    ELSE <<>>

\* a mutant of ItemText: Null pushes a space, as the other values do
ItemText_NullPushesSpace(item) ==
    IF is_number(item) THEN [ok |-> TRUE, text |-> format_f64(item.n) \o <<" ">>]
    ELSE IF is_string(item) THEN [ok |-> TRUE, text |-> item.s \o <<" ">>]
    ELSE IF is_null(item) THEN [ok |-> TRUE, text |-> <<" ">>]
    ELSE IF is_array(item)
         THEN LET string_array == convert_vec_to_string_vec(item.items)
              IN  [ok |-> string_array.ok, text |-> join(string_array.strs, <<" ">>) \o <<" ">>]
    ELSE [ok |-> FALSE, text |-> <<>>]

\* a mutant of ItemText: a value of no dispatched type is skipped, not a panic
ItemText_SkipsOther(item) ==
    IF is_number(item) THEN [ok |-> TRUE, text |-> format_f64(item.n) \o <<" ">>]
    ELSE IF is_string(item) THEN [ok |-> TRUE, text |-> item.s \o <<" ">>]
    ELSE IF is_null(item) THEN [ok |-> TRUE, text |-> <<>>]
    ELSE IF is_array(item)
         THEN LET string_array == convert_vec_to_string_vec(item.items)
              IN  [ok |-> string_array.ok, text |-> join(string_array.strs, <<" ">>) \o <<" ">>]
    ELSE [ok |-> TRUE, text |-> <<>>]

\* main.rs:72-97: [ok, text], ok FALSE for the panic
ItemText(item) ==
    IF is_number(item) THEN [ok |-> TRUE, text |-> format_f64(item.n) \o <<" ">>]
    ELSE IF is_string(item) THEN [ok |-> TRUE, text |-> item.s \o <<" ">>]
    ELSE IF is_null(item) THEN [ok |-> TRUE, text |-> <<>>]
    ELSE IF is_array(item)
         THEN LET string_array == convert_vec_to_string_vec(item.items)
              IN  [ok |-> string_array.ok, text |-> join(string_array.strs, <<" ">>) \o <<" ">>]
    ELSE [ok |-> FALSE, text |-> <<>>]

\* a mutant of NonObjectText: the Number branch is missing
NonObjectText_NoNumber(config) ==
    IF is_array(config)
    THEN LET string_array == convert_vec_to_string_vec(config.items)
         IN  [ok |-> string_array.ok, text |-> join(string_array.strs, <<" ">>) \o <<" ">>]
    ELSE IF is_string(config) THEN [ok |-> TRUE, text |-> config.s \o <<" ">>]
    ELSE [ok |-> TRUE, text |-> <<>>]

\* main.rs:100-114: the text pushed for a document that is not an object
NonObjectText(config) ==
    IF is_array(config)
    THEN LET string_array == convert_vec_to_string_vec(config.items)
         IN  [ok |-> string_array.ok, text |-> join(string_array.strs, <<" ">>) \o <<" ">>]
    ELSE IF is_number(config) THEN [ok |-> TRUE, text |-> format_f64(config.n) \o <<" ">>]
    ELSE IF is_string(config) THEN [ok |-> TRUE, text |-> config.s \o <<" ">>]
    ELSE [ok |-> TRUE, text |-> <<>>]

(***************************************************************************)
(* The state of one run of the program.                                    *)
(***************************************************************************)
VARIABLES
    argv,         \* env::args().skip(1)
    pc,           \* where main is: "start", "flatten", "flattened", "exit"
    config,       \* the parsed document
    stack,        \* the calls of generate_args_string in progress, innermost last
    raw_string,   \* what generate_args_string(&config, None) returned
    stdout,       \* the lines printed, each [kind, text]
    exit_status,  \* the exit status of the process, -1 while it runs
    stages        \* the stages of main completed so far, in order

vars == <<argv, pc, config, stack, raw_string, stdout, exit_status, stages>>

\* a call of generate_args_string on an object: i is the index of the next key
Frame(cfg, prefix) == [config |-> cfg, prefix |-> prefix, i |-> 1, args |-> <<>>]

UsageLine == [kind |-> "usage", text |-> <<"u", "s", "a", "g", "e">>]

ResultLine(text) == [kind |-> "result", text |-> text]

Init ==
    /\ argv \in {<<>>} \cup {<<p>> : p \in Paths}
    /\ pc = "start"
    /\ config = VNull
    /\ stack = <<>>
    /\ raw_string = <<>>
    /\ stdout = <<>>
    /\ exit_status = -1
    /\ stages = <<>>

\* the process ends with an error: main returns Err (status 1) or panics (status 101)
Fail(status) ==
    /\ pc' = "exit"
    /\ exit_status' = status
    /\ stack' = <<>>

\* main.rs:10-13
NoArgs ==
    /\ pc = "start"
    /\ argv = <<>>
    /\ stdout' = Append(stdout, UsageLine)
    /\ Fail(1)
    /\ UNCHANGED <<argv, config, raw_string, stages>>

\* main.rs:16, 35-44: File::open, read_to_string or from_str returns Err
ParseJsonFileErr ==
    /\ pc = "start"
    /\ argv # <<>>
    /\ \E failed \in {"open", "read", "parse"} :
         stages' = IF failed = "parse" THEN Append(stages, "read") ELSE stages
    /\ Fail(1)
    /\ UNCHANGED <<argv, config, raw_string, stdout>>

\* main.rs:18, 46-47: generate_args_string(&config, None) is entered
EnterFlatten(doc) ==
    /\ config' = doc
    /\ stack' = <<Frame(doc, <<>>)>>
    /\ pc' = "flatten"
    /\ stages' = stages \o <<"read", "parse">>
    /\ UNCHANGED <<argv, raw_string, stdout, exit_status>>

\* main.rs:16-18: the file parses, to any document within the bounds: one that is
\* not an object, the empty object, or an object of a first field and the rest
ParseJsonFileOk ==
    /\ pc = "start"
    /\ argv # <<>>
    /\ \/ \E doc \in NonObjectDocs : EnterFlatten(doc)
       \/ EnterFlatten(VObj(<<>>))
       \/ \E s \in 0..(MaxNodes - 1) :
            \E e \in EntriesFirst(s, ValuesUpTo(MaxNodes - 1, MaxDepth),
                                  EntriesUpTo(MaxNodes - 1 - s, MaxDepth)) :
              EnterFlatten(VObj(e))

Top == stack[Len(stack)]

AtField == /\ pc = "flatten"
           /\ stack # <<>>
           /\ is_object(Top.config)
           /\ Top.i <= Len(Top.config.kv)

CurKey == Top.config.kv[Top.i].key

CurItem == Top.config.kv[Top.i].val

\* main.rs:57-59: the field is an object, generate_args_string is called on it
NestedCall ==
    /\ AtField
    /\ is_object(CurItem)
    /\ stack' = Append(stack, Frame(CurItem, NestedPrefix(KeyName(Top.prefix, CurKey))))
    /\ UNCHANGED <<argv, pc, config, raw_string, stdout, exit_status, stages>>

\* main.rs:64-93: a field that is not an object is appended
LeafField ==
    /\ AtField
    /\ ~is_object(CurItem)
    /\ ItemText(CurItem).ok
    /\ stack' = [stack EXCEPT ![Len(stack)] =
                   [@ EXCEPT !.args = @ \o FlagText(KeyName(Top.prefix, CurKey)) \o ItemText(CurItem).text,
                             !.i = @ + 1]]
    /\ UNCHANGED <<argv, pc, config, raw_string, stdout, exit_status, stages>>

\* main.rs:89, 95-97, 133: the panics inside the loop over the keys
FieldPanic ==
    /\ AtField
    /\ ~is_object(CurItem)
    /\ ~ItemText(CurItem).ok
    /\ Fail(101)
    /\ UNCHANGED <<argv, config, raw_string, stdout, stages>>

\* main.rs:117 in a nested call, then main.rs:60-61 in its caller
NestedReturn ==
    /\ pc = "flatten"
    /\ Len(stack) > 1
    /\ is_object(Top.config)
    /\ Top.i > Len(Top.config.kv)
    /\ LET nested_args == trim_end(Top.args)
           caller == Len(stack) - 1
       IN  stack' = [SubSeq(stack, 1, caller) EXCEPT ![caller] =
                       [@ EXCEPT !.args = @ \o nested_args \o <<" ">>, !.i = @ + 1]]
    /\ UNCHANGED <<argv, pc, config, raw_string, stdout, exit_status, stages>>

\* main.rs:117 in the call main made on an object
ObjectReturn ==
    /\ pc = "flatten"
    /\ Len(stack) = 1
    /\ is_object(Top.config)
    /\ Top.i > Len(Top.config.kv)
    /\ raw_string' = trim_end(Top.args)
    /\ stack' = <<>>
    /\ pc' = "flattened"
    /\ stages' = Append(stages, "flatten")
    /\ UNCHANGED <<argv, config, stdout, exit_status>>

\* main.rs:99-117: the call main made on a document that is not an object
NonObjectReturn ==
    /\ pc = "flatten"
    /\ Len(stack) = 1
    /\ ~is_object(Top.config)
    /\ NonObjectText(Top.config).ok
    /\ raw_string' = trim_end(Top.args \o NonObjectText(Top.config).text)
    /\ stack' = <<>>
    /\ pc' = "flattened"
    /\ stages' = Append(stages, "flatten")
    /\ UNCHANGED <<argv, config, stdout, exit_status>>

\* main.rs:101, 133: the panic on a top-level array
NonObjectPanic ==
    /\ pc = "flatten"
    /\ Len(stack) = 1
    /\ ~is_object(Top.config)
    /\ ~NonObjectText(Top.config).ok
    /\ Fail(101)
    /\ UNCHANGED <<argv, config, raw_string, stdout, stages>>

\* a mutant of is_tera_template: the suffix is tested without its dot
is_tera_template_NoDot == ends_with(argv[1], <<"t", "e", "r", "a">>)

\* main.rs:20
is_tera_template == ends_with(argv[1], <<".", "t", "e", "r", "a">>)

\* what Tera::one_off may return for a template: Tera is a library, so its result
\* is any of the text unchanged, an expansion of it, or an error
TeraOutputs(template) == {template, template \o <<" ">>, <<"1", " ", "2", " ">>}

\* main.rs:24-28
PrintRaw ==
    /\ pc = "flattened"
    /\ ~is_tera_template
    /\ stdout' = Append(stdout, ResultLine(raw_string))
    /\ pc' = "exit"
    /\ exit_status' = 0
    /\ stages' = Append(stages, "print")
    /\ UNCHANGED <<argv, config, stack, raw_string>>

\* main.rs:21-23, 28, 139-142: the template renders
RenderOk ==
    /\ pc = "flattened"
    /\ is_tera_template
    /\ \E result \in TeraOutputs(raw_string) :
         stdout' = Append(stdout, ResultLine(result))
    /\ pc' = "exit"
    /\ exit_status' = 0
    /\ stages' = stages \o <<"render", "print">>
    /\ UNCHANGED <<argv, config, stack, raw_string>>

\* main.rs:22, 139-142: Tera::one_off returns Err
RenderErr ==
    /\ pc = "flattened"
    /\ is_tera_template
    /\ Fail(1)
    /\ UNCHANGED <<argv, config, raw_string, stdout, stages>>

Next ==
    \/ NoArgs
    \/ ParseJsonFileErr
    \/ ParseJsonFileOk
    \/ NestedCall
    \/ LeafField
    \/ FieldPanic
    \/ NestedReturn
    \/ ObjectReturn
    \/ NonObjectReturn
    \/ NonObjectPanic
    \/ PrintRaw
    \/ RenderOk
    \/ RenderErr

Spec == Init /\ [][Next]_vars

(***************************************************************************)
(* What the properties below are stated with.  None of it is used by the   *)
(* actions above.                                                          *)
(***************************************************************************)
HasStage(name) == \E i \in 1..Len(stages) : stages[i] = name

\* generate_args_string(&config, None) has returned raw_string
Flattened == HasStage("flatten")

\* the process was ended by a panic
Panicked == pc = "exit" /\ exit_status = 101

\* the decimal text of the numbers of the model, written out
DecimalText(tenths) ==
    CASE tenths = 0 -> <<"0">>
      [] tenths = 10 -> <<"1">>
      [] tenths = -25 -> <<"-", "2", ".", "5">>
      [] tenths = 105 -> <<"1", "0", ".", "5">>

Space == <<" ">>

\* the text of a Number or String
ScalarText(v) == IF v.t = "number" THEN DecimalText(v.n) ELSE v.s

NumberOrString(v) == v.t \in {"number", "string"}

SupportedArray(v) == v.t = "array" /\ \A i \in 1..Len(v.items) : NumberOrString(v.items[i])

\* the elements of an array of Numbers and Strings, in order, one space between them
RECURSIVE SpaceJoined(_)
SpaceJoined(texts) ==
    IF texts = <<>> THEN <<>>
    ELSE IF Len(texts) = 1 THEN texts[1]
    ELSE texts[1] \o Space \o SpaceJoined(Tail(texts))

ElementsText(v) == SpaceJoined([i \in 1..Len(v.items) |-> ScalarText(v.items[i])])

BeginsWithUnderscore(str) == str # <<>> /\ str[1] = "_"

\* `-key` for a key of length 1, `--key` for any other length
Flag(key_path) == (IF Len(key_path) = 1 THEN <<"-">> ELSE <<"-", "-">>) \o key_path

\* trimmed is str without its trailing whitespace
IsRightTrimOf(trimmed, str) ==
    /\ Len(trimmed) <= Len(str)
    /\ SubSeq(str, 1, Len(trimmed)) = trimmed
    /\ \A i \in (Len(trimmed) + 1)..Len(str) : str[i] \in {" ", "\t", "\n"}
    /\ trimmed # <<>> => trimmed[Len(trimmed)] \notin {" ", "\t", "\n"}

\* the whitespace-separated tokens of a string
RECURSIVE TokensFrom(_, _, _)
TokensFrom(str, current, done) ==
    IF str = <<>> THEN (IF current = <<>> THEN done ELSE Append(done, current))
    ELSE IF str[1] \in {" ", "\t", "\n"}
         THEN TokensFrom(Tail(str), <<>>, IF current = <<>> THEN done ELSE Append(done, current))
         ELSE TokensFrom(Tail(str), Append(current, str[1]), done)

Tokens(str) == TokensFrom(str, <<>>, <<>>)

\* an array, anywhere in the value, with an element that is not a Number or a String
RECURSIVE HasBadArray(_)
HasBadArray(v) ==
    \/ v.t = "array" /\ ~SupportedArray(v)
    \/ v.t = "object" /\ \E i \in 1..Len(v.kv) : HasBadArray(v.kv[i].val)

\* an object field, at any depth, whose value is a Boolean
RECURSIVE HasBoolField(_)
HasBoolField(v) ==
    v.t = "object" /\ \E i \in 1..Len(v.kv) :
                         v.kv[i].val.t = "bool" \/ HasBoolField(v.kv[i].val)

\* an iteration of the loop over the keys appends text for a field that is not an object
LeafStep ==
    /\ AtField
    /\ ~is_object(CurItem)
    /\ Len(stack') = Len(stack)
    /\ stack'[Len(stack)].i = Top.i + 1

\* what that iteration appended to args
Appended == SubSeq(stack'[Len(stack)].args, Len(Top.args) + 1, Len(stack'[Len(stack)].args))

\* the flattened key path of the field the loop is at
KeyPath == Top.prefix \o CurKey

(***************************************************************************)
(* C1                                                                      *)
(***************************************************************************)
FlatStringNumber(doc) ==
    /\ doc.t = "object"
    /\ \A i \in 1..Len(doc.kv) :
         /\ NumberOrString(doc.kv[i].val)
         /\ ~BeginsWithUnderscore(doc.kv[i].key)

C1_Pairs(doc) ==
    SpaceJoined([i \in 1..Len(doc.kv) |->
                   Flag(doc.kv[i].key) \o Space \o ScalarText(doc.kv[i].val)])

\* C1 as stated: for a flat object of String and Number fields whose keys do not
\* begin with `_`, the result is exactly the flag-value pairs, one per field in
\* document order, joined by single spaces.
C1_AsStated == Flattened /\ FlatStringNumber(config) => raw_string = C1_Pairs(config)

\* C1, amended: for a flat object of String and Number fields whose keys do not
\* begin with `_`, the result is the flag-value pairs (`-key` for a key of length
\* 1, `--key` otherwise), one per field in document order, joined by single
\* spaces, with the trailing whitespace of the whole removed.
C1_FlatPairs ==
    Flattened /\ FlatStringNumber(config) => IsRightTrimOf(raw_string, C1_Pairs(config))

C1_Witness ==
    /\ Flattened
    /\ config = VObj(<<[key |-> <<"k", "1">>, val |-> VNum(-25)], [key |-> <<"a">>, val |-> VStr(<<"x">>)]>>)
    /\ raw_string = <<"-", "-", "k", "1", " ", "-", "2", ".", "5", " ", "-", "a", " ", "x">>

(***************************************************************************)
(* C2                                                                      *)
(***************************************************************************)
RECURSIVE DottedPath(_)
DottedPath(keys) ==
    IF Len(keys) = 1 THEN keys[1] ELSE keys[1] \o <<".">> \o DottedPath(Tail(keys))

RECURSIVE TokensOfAll(_)
TokensOfAll(texts) == IF texts = <<>> THEN <<>> ELSE Tokens(texts[1]) \o TokensOfAll(Tail(texts))

\* the tokens of a field that is not an object, at the end of the key path keys
LeafTokens(keys, v) ==
    (IF BeginsWithUnderscore(DottedPath(keys)) THEN <<>> ELSE Tokens(Flag(DottedPath(keys))))
    \o (CASE v.t = "number" -> <<DecimalText(v.n)>>
          [] v.t = "string" -> Tokens(v.s)
          [] v.t = "array" -> TokensOfAll([i \in 1..Len(v.items) |-> ScalarText(v.items[i])])
          [] OTHER -> <<>>)

\* the tokens of the fields from the i-th on of an object reached by the key path
\* keys, depth first in document order: nothing for the key of a nested object
RECURSIVE WalkTokens(_, _, _)
WalkTokens(keys, entries, i) ==
    IF i > Len(entries) THEN <<>>
    ELSE (IF entries[i].val.t = "object"
          THEN WalkTokens(Append(keys, entries[i].key), entries[i].val.kv, 1)
          ELSE LeafTokens(Append(keys, entries[i].key), entries[i].val))
         \o WalkTokens(keys, entries, i + 1)

\* C2: the tokens of the result for an object are those of a depth-first walk in
\* document order, in which each leaf's flag is built from its full key path,
\* ancestor keys joined by `.`, and the key of a nested object yields no token.
C2_DottedPaths ==
    Flattened /\ config.t = "object" => Tokens(raw_string) = WalkTokens(<<>>, config.kv, 1)

C2_Witness ==
    /\ Flattened
    /\ config = VObj(<<[key |-> <<"a">>, val |->
                 VObj(<<[key |-> <<"k", "1">>, val |->
                    VObj(<<[key |-> <<"_">>, val |-> VNum(-25)]>>)]>>)]>>)
    /\ raw_string = <<"-", "-", "a", ".", "k", "1", ".", "_", " ", "-", "2", ".", "5">>

(***************************************************************************)
(* C3                                                                      *)
(***************************************************************************)
\* the text of the value of a field that is not an object, as the loop pushes it
ValueText(v) ==
    CASE v.t \in {"number", "string"} -> ScalarText(v) \o Space
      [] v.t = "array" -> ElementsText(v) \o Space
      [] OTHER -> <<>>

\* C3: an iteration over a field that is not an object appends the value alone
\* exactly when the first character of the flattened key path (prefix + key) is
\* `_`, and the flag, a space and the value otherwise.
C3_FlagOmittedIffUnderscore ==
    [][LeafStep =>
         /\ stack'[Len(stack)].args = Top.args \o Appended
         /\ (Appended = ValueText(CurItem)) <=> BeginsWithUnderscore(KeyPath)
         /\ ~BeginsWithUnderscore(KeyPath) =>
              Appended = Flag(KeyPath) \o Space \o ValueText(CurItem)]_vars

\* a leaf key `_` under the ancestor `a` has got its flag
C3_Witness ==
    /\ pc = "flatten"
    /\ Len(stack) = 2
    /\ Top.prefix = <<"a", ".">>
    /\ Top.i = 2
    /\ Top.config.kv[1] = [key |-> <<"_">>, val |-> VNum(-25)]
    /\ Top.args = <<"-", "-", "a", ".", "_", " ", "-", "2", ".", "5", " ">>

(***************************************************************************)
(* C4                                                                      *)
(***************************************************************************)
\* C4 as stated: a field whose value is an array of Numbers and Strings is
\* rendered as one flag token followed by its elements, in order, joined by
\* single spaces.
C4_AsStated ==
    [][LeafStep /\ SupportedArray(CurItem) /\ CurItem.items # <<>> =>
         Appended = Flag(KeyPath) \o Space \o ElementsText(CurItem) \o Space]_vars

\* C4, amended: a field whose value is an array of Numbers and Strings is
\* rendered as its elements, in order, joined by single spaces, preceded by one
\* flag token unless the flattened key path begins with `_`, and then by none.
C4_ArrayField ==
    [][LeafStep /\ SupportedArray(CurItem) =>
         Appended = (IF BeginsWithUnderscore(KeyPath) THEN <<>> ELSE Flag(KeyPath) \o Space)
                    \o ElementsText(CurItem) \o Space]_vars

C4_Witness ==
    /\ Flattened
    /\ config = VObj(<<[key |-> <<"k", "1">>, val |-> VArr(<<VNum(10), VStr(<<"x">>)>>)]>>)
    /\ raw_string = <<"-", "-", "k", "1", " ", "1", " ", "x">>

(***************************************************************************)
(* C5                                                                      *)
(***************************************************************************)
\* C5: when an array of the document, the document itself or a field at any
\* depth, has an element that is not a Number or a String, generate_args_string
\* never returns: the run ends in the panic, with nothing printed.
C5_BadArrayIsFatal ==
    HasBadArray(config) =>
        /\ ~Flattened
        /\ pc \in {"flatten", "exit"}
        /\ pc = "exit" => Panicked /\ stdout = <<>>

\* the array of a nested object, holding a Null, has ended the run
C5_Witness ==
    /\ Panicked
    /\ stdout = <<>>
    /\ config = VObj(<<[key |-> <<"k", "1">>, val |->
                 VObj(<<[key |-> <<"a">>, val |-> VArr(<<VNull>>)]>>)]>>)

(***************************************************************************)
(* C6                                                                      *)
(***************************************************************************)
\* the text of a document that is not an object
DocumentText(doc) ==
    CASE doc.t \in {"number", "string"} -> ScalarText(doc)
      [] doc.t = "array" -> ElementsText(doc)
      [] OTHER -> <<>>

NonObjectDocument == HasStage("parse") /\ config.t # "object" /\ ~HasBadArray(config)

\* C6 as stated: a document that is not an object yields, with no flag, the
\* string itself, the decimal text of the number, the elements of the array
\* joined by single spaces, and the empty string for Null or a Boolean.
C6_AsStated ==
    NonObjectDocument =>
        /\ ~Panicked
        /\ Flattened => raw_string = DocumentText(config)

\* C6, amended: a document that is not an object yields, with no flag, the
\* string, the decimal text of the number, or the elements of the array joined
\* by single spaces, in each case without its trailing whitespace, and the
\* empty string for Null or a Boolean, without failing.
C6_NonObjectDocument ==
    NonObjectDocument =>
        /\ ~Panicked
        /\ Flattened => IsRightTrimOf(raw_string, DocumentText(config))

C6_Witness ==
    /\ Flattened
    /\ config = VArr(<<VNum(10), VStr(<<"x">>), VNum(10)>>)
    /\ raw_string = <<"1", " ", "x", " ", "1">>

(***************************************************************************)
(* C7                                                                      *)
(***************************************************************************)
ResultLines == {i \in 1..Len(stdout) : stdout[i].kind = "result"}

PathEndsWithTera ==
    /\ argv # <<>>
    /\ Len(argv[1]) >= 5
    /\ SubSeq(argv[1], Len(argv[1]) - 4, Len(argv[1])) = <<".", "t", "e", "r", "a">>

\* C7: the final string is printed at most once, and only after the file was
\* read, the JSON parsed, the value flattened and, exactly when the path ends
\* with `.tera`, the template rendered; a run that fails at one of these stages
\* ends with a non-zero status and no final string printed; a run with no
\* argument prints the usage line alone and ends with a non-zero status.
C7_PrintOnlyAfterSuccess ==
    /\ Cardinality(ResultLines) <= 1
    /\ Len(stdout) <= 1
    /\ ResultLines # {} =>
         /\ argv # <<>>
         /\ SubSeq(stages, 1, 3) = <<"read", "parse", "flatten">>
         /\ stages = IF PathEndsWithTera
                     THEN <<"read", "parse", "flatten", "render", "print">>
                     ELSE <<"read", "parse", "flatten", "print">>
         /\ pc = "exit"
         /\ exit_status = 0
    /\ pc = "exit" /\ ~HasStage("print") => exit_status # 0 /\ ResultLines = {}
    /\ pc = "exit" /\ exit_status = 0 => Cardinality(ResultLines) = 1
    /\ pc = "exit" /\ argv = <<>> => exit_status # 0 /\ stdout = <<UsageLine>> /\ stages = <<>>
    /\ pc # "exit" => exit_status = -1 /\ stdout = <<>>

C7_Witness ==
    /\ pc = "exit"
    /\ exit_status = 0
    /\ PathEndsWithTera
    /\ stages = <<"read", "parse", "flatten", "render", "print">>
    /\ Len(stdout) = 1
    /\ stdout[1].kind = "result"

(***************************************************************************)
(* C8                                                                      *)
(***************************************************************************)
\* C8 as stated: an iteration over a field whose value is Null appends nothing,
\* so that the field leaves no trace in the result.
C8_AsStated == [][LeafStep /\ CurItem.t = "null" => Appended = <<>>]_vars

\* C8, amended: an iteration over a field whose value is Null appends no value
\* token and no space for it: it appends the flag token and the space after it,
\* and nothing at all when the flattened key path begins with `_`.
C8_NullField ==
    [][LeafStep /\ CurItem.t = "null" =>
         Appended = IF BeginsWithUnderscore(KeyPath) THEN <<>> ELSE Flag(KeyPath) \o Space]_vars

C8_Witness ==
    /\ Flattened
    /\ config = VObj(<<[key |-> <<"a">>, val |-> VNull], [key |-> <<"k", "1">>, val |-> VNum(-25)]>>)
    /\ raw_string = <<"-", "a", " ", "-", "-", "k", "1", " ", "-", "2", ".", "5">>

(***************************************************************************)
(* C9                                                                      *)
(***************************************************************************)
CleanText(str) == str # <<>> /\ \A i \in 1..Len(str) : str[i] \notin {" ", "\t", "\n"}

\* the keys and the string values of the value are non-empty and hold no whitespace
RECURSIVE CleanDocument(_)
CleanDocument(v) ==
    /\ v.t = "string" => CleanText(v.s)
    /\ \A i \in 1..Len(v.items) : CleanDocument(v.items[i])
    /\ \A i \in 1..Len(v.kv) : CleanText(v.kv[i].key) /\ CleanDocument(v.kv[i].val)

\* C9: the result for a document whose keys and string values are non-empty and
\* hold no whitespace has no leading whitespace, no trailing whitespace and no
\* two consecutive spaces.
C9_SingleSpaces ==
    Flattened /\ CleanDocument(config) =>
        /\ raw_string # <<>> => raw_string[1] # " " /\ raw_string[Len(raw_string)] # " "
        /\ \A i \in 1..(Len(raw_string) - 1) : ~(raw_string[i] = " " /\ raw_string[i + 1] = " ")

(***************************************************************************)
(* C10                                                                     *)
(***************************************************************************)
\* C10: a Boolean as the value of an object field, at any depth, ends the run in
\* the panic, with no result returned and nothing printed, while a Boolean as the
\* whole document is flattened to the empty string.
C10_BooleanField ==
    /\ HasBoolField(config) =>
         /\ ~Flattened
         /\ pc \in {"flatten", "exit"}
         /\ pc = "exit" => Panicked /\ stdout = <<>>
    /\ config.t = "bool" =>
         /\ ~Panicked
         /\ Flattened => raw_string = <<>>

\* a Boolean two objects deep has ended the run
C10_Witness ==
    /\ Panicked
    /\ config = VObj(<<[key |-> <<"a">>, val |->
                 VObj(<<[key |-> <<"k", "1">>, val |->
                    VObj(<<[key |-> <<"a">>, val |-> VBool(TRUE)]>>)]>>)]>>)

\* the Boolean document has been flattened
C10_TopLevelWitness == Flattened /\ config = VBool(TRUE) /\ raw_string = <<>>

====
